---- MODULE Spec2Model ----
(***************************************************************************)
(* A model of the NBT codec of src/nbtClass.tsx: the thirteen tag classes  *)
(* (constructors, length queries, writeHeader / writePayload / toBytes,    *)
(* the static readPayload decoders) and the entry point parseNBT, over a   *)
(* stream {buffer, byteOffset}.                                            *)
(*                                                                         *)
(* A buffer is a sequence of bytes 0..255 (index 1 holds byte offset 0).   *)
(* A JavaScript number is a record [cls, q, r]: for cls = "num" its value  *)
(* is 2*q + r/2 with r in 0..3, so that halves and the values one past the *)
(* 32-bit range are both exact; the other classes are NaN ("nan"), the     *)
(* infinities ("inf") and the floating-point values outside that grid,     *)
(* kept only as integral ("whole") or not ("frac").  A bigint is a         *)
(* sequence of four base-65536 limbs, the first one signed.                *)
(* A string is the sequence of its code points.                            *)
(***************************************************************************)
EXTENDS Integers, Sequences, FiniteSets, TLC

\* ------------------------------------------------------------------ numbers

RECURSIVE Pow2(_)
Pow2(n) == IF n <= 0 THEN 1 ELSE 2 * Pow2(n - 1)

RECURSIVE Log2(_)
\* floor(log2 m) for m >= 1
Log2(m) == IF m <= 1 THEN 0 ELSE 1 + Log2(m \div 2)

Abs(n) == IF n < 0 THEN -n ELSE n

\* The JS number of the integer n.
Num(n) == [cls |-> "num", q |-> n \div 2, r |-> 2 * (n % 2)]

\* The JS number n + 1/2.
NumHalf(n) == [cls |-> "num", q |-> n \div 2, r |-> (2 * (n % 2)) + 1]

\* The JS number t/2.
NumOfTwice(t) == [cls |-> "num", q |-> t \div 4, r |-> t % 4]

NaN == [cls |-> "nan", q |-> 0, r |-> 0]

Other(c) == [cls |-> c, q |-> 0, r |-> 0]

\* x > n and x < n for a JS number x and an integer n (false for NaN).
NumGT(x, n) ==
    /\ x.cls = "num"
    /\ \/ x.q > Num(n).q
       \/ x.q = Num(n).q /\ x.r > Num(n).r

NumLT(x, n) ==
    /\ x.cls = "num"
    /\ \/ x.q < Num(n).q
       \/ x.q = Num(n).q /\ x.r < Num(n).r

\* Number.isInteger
isInteger(x) == (x.cls = "num" /\ x.r % 2 = 0) \/ x.cls = "whole"

\* ToIntegerOrInfinity for a number the conversions below are given:
\* truncation toward zero, NaN to 0.
Trunc(x) ==
    IF x.cls # "num" THEN 0
    ELSE IF x.r % 2 = 1 /\ x.q < 0 THEN (2 * x.q) + (x.r \div 2) + 1
    ELSE (2 * x.q) + (x.r \div 2)

\* twice the value of a "num"
Twice(x) == (4 * x.q) + x.r

\* ------------------------------------------------------------------ bytes

BE16(n) == <<(n \div 256) % 256, n % 256>>

BE32(n) == <<(n \div 16777216) % 256, (n \div 65536) % 256, (n \div 256) % 256, n % 256>>

Signed8(b) == IF b >= 128 THEN b - 256 ELSE b

\* DataView / typed-array construction over (buffer, byteOffset, length):
\* a RangeError unless the window lies inside the buffer.
CanView(buffer, off, len) == len >= 0 /\ off + len <= Len(buffer)

Slice(buffer, off, len) == [i \in 1..len |-> buffer[off + i]]

getUint16(buffer, off) == buffer[off + 1] * 256 + buffer[off + 2]

getInt16(buffer, off) == Signed8(buffer[off + 1]) * 256 + buffer[off + 2]

getInt32(buffer, off) ==
    Signed8(buffer[off + 1]) * 16777216 + buffer[off + 2] * 65536
        + buffer[off + 3] * 256 + buffer[off + 4]

\* getBigInt64: eight bytes as four limbs, the first one signed.
getBigInt64(buffer, off) ==
    << getInt16(buffer, off), getUint16(buffer, off + 2),
       getUint16(buffer, off + 4), getUint16(buffer, off + 6) >>

\* setBigInt64: the value modulo 2^64, big-endian.
BE64(v) == BE16(v[1] % 65536) \o BE16(v[2]) \o BE16(v[3]) \o BE16(v[4])

\* The bytes written over buffer from byte offset off.
SetBytes(buffer, off, bytes) ==
    [i \in 1..Len(buffer) |->
        IF i > off /\ i <= off + Len(bytes) THEN bytes[i - off] ELSE buffer[i]]

RECURSIVE Flatten(_)
Flatten(ss) == IF ss = <<>> THEN <<>> ELSE Head(ss) \o Flatten(Tail(ss))

\* ------------------------------------------------- IEEE-754 (DataView)

\* Whether the f low bits of the big-endian byte sequence bs are all zero.
RECURSIVE LowBitsZero(_, _)
LowBitsZero(bs, f) ==
    IF f <= 0 \/ bs = <<>> THEN TRUE
    ELSE IF f >= 8 THEN bs[Len(bs)] = 0 /\ LowBitsZero(SubSeq(bs, 1, Len(bs) - 1), f - 8)
    ELSE bs[Len(bs)] % Pow2(f) = 0

\* A binary float of sign s, unbiased exponent e and the mantissa bytes ms
\* (mbits bits, the leading ones in ms[1]) whose top 20 bits are top20.
FloatValue(s, e, ms, mbits, top20) ==
    LET L == e + 1
        t == (1048576 + top20) \div Pow2(20 - L)
    IN  IF L < 0 THEN Other("frac")
        ELSE IF L <= 20
        THEN IF LowBitsZero(ms, mbits - L)
             THEN NumOfTwice(IF s = 1 THEN -t ELSE t)
             ELSE Other("frac")
        ELSE IF LowBitsZero(ms, mbits - e) THEN Other("whole") ELSE Other("frac")

getFloat32(buffer, off) ==
    LET b == Slice(buffer, off, 4)
        s == b[1] \div 128
        E == ((b[1] % 128) * 2) + (b[2] \div 128)
        ms == <<b[2] % 128, b[3], b[4]>>
        zero == ms = <<0, 0, 0>>
    IN  IF E = 255 THEN (IF zero THEN Other("inf") ELSE NaN)
        ELSE IF E = 0 THEN (IF zero THEN Num(0) ELSE Other("frac"))
        ELSE FloatValue(s, E - 127, ms, 23,
                        (ms[1] * 65536 + ms[2] * 256 + ms[3]) \div 8)

getFloat64(buffer, off) ==
    LET b == Slice(buffer, off, 8)
        s == b[1] \div 128
        E == ((b[1] % 128) * 16) + (b[2] \div 16)
        ms == <<b[2] % 16>> \o SubSeq(b, 3, 8)
        zero == \A i \in 1..7 : ms[i] = 0
    IN  IF E = 2047 THEN (IF zero THEN Other("inf") ELSE NaN)
        ELSE IF E = 0 THEN (IF zero THEN Num(0) ELSE Other("frac"))
        ELSE FloatValue(s, E - 1023, ms, 52, ms[1] * 65536 + ms[2] * 256 + ms[3])

\* The sign, biased exponent (bias given) and top 20 mantissa bits of t/2.
FloatParts(t, bias) ==
    LET m == Abs(t)
        L == Log2(m)
    IN  [s |-> IF t < 0 THEN 1 ELSE 0, E |-> (L - 1) + bias,
         top20 |-> (m - Pow2(L)) * Pow2(20 - L)]

\* setFloat32 / setFloat64 of a number on the half grid below 2^20 (NaN is
\* written as the quiet NaN); the write path is given no other value.
setFloat32(x) ==
    IF x.cls = "nan" THEN <<127, 192, 0, 0>>
    ELSE IF x.cls # "num" \/ Twice(x) = 0 THEN <<0, 0, 0, 0>>
    ELSE LET p == FloatParts(Twice(x), 127)
         IN  << (p.s * 128) + (p.E \div 2), ((p.E % 2) * 128) + (p.top20 \div 8192),
                (p.top20 \div 32) % 256, (p.top20 % 32) * 8 >>

setFloat64(x) ==
    IF x.cls = "nan" THEN <<127, 248, 0, 0, 0, 0, 0, 0>>
    ELSE IF x.cls # "num" \/ Twice(x) = 0 THEN <<0, 0, 0, 0, 0, 0, 0, 0>>
    ELSE LET p == FloatParts(Twice(x), 1023)
         IN  << (p.s * 128) + (p.E \div 16), ((p.E % 16) * 16) + (p.top20 \div 65536),
                (p.top20 \div 256) % 256, p.top20 % 256, 0, 0, 0, 0 >>

\* ------------------------------------------------------------------ text

\* TextEncoder.encode of one code point (a lone surrogate becomes U+FFFD).
EncodeCodePoint(c) ==
    IF c < 128 THEN <<c>>
    ELSE IF c < 2048 THEN <<192 + (c \div 64), 128 + (c % 64)>>
    ELSE IF c \in 55296..57343 THEN <<239, 191, 189>>
    ELSE IF c < 65536 THEN <<224 + (c \div 4096), 128 + ((c \div 64) % 64), 128 + (c % 64)>>
    ELSE <<240 + (c \div 262144), 128 + ((c \div 4096) % 64),
           128 + ((c \div 64) % 64), 128 + (c % 64)>>

utf8Encode(name) == Flatten([i \in 1..Len(name) |-> EncodeCodePoint(name[i])])

\* TextDecoder("utf-8").decode: the WHATWG decoder, not fatal (an ill-formed
\* sequence becomes U+FFFD and the offending byte is read again), and a
\* leading byte order mark is dropped.
RECURSIVE Utf8Dec(_, _)
RECURSIVE Utf8Cont(_, _, _, _, _, _)
Utf8Cont(bytes, j, need, cp, lo, hi) ==
    IF j > Len(bytes) THEN <<65533>>
    ELSE IF bytes[j] < lo \/ bytes[j] > hi THEN <<65533>> \o Utf8Dec(bytes, j)
    ELSE IF need = 1 THEN <<cp * 64 + (bytes[j] % 64)>> \o Utf8Dec(bytes, j + 1)
    ELSE Utf8Cont(bytes, j + 1, need - 1, cp * 64 + (bytes[j] % 64), 128, 191)

Utf8Dec(bytes, i) ==
    IF i > Len(bytes) THEN <<>>
    ELSE LET b == bytes[i]
         IN  IF b < 128 THEN <<b>> \o Utf8Dec(bytes, i + 1)
             ELSE IF b \in 194..223 THEN Utf8Cont(bytes, i + 1, 1, b % 32, 128, 191)
             ELSE IF b \in 224..239
             THEN Utf8Cont(bytes, i + 1, 2, b % 16,
                           IF b = 224 THEN 160 ELSE 128, IF b = 237 THEN 159 ELSE 191)
             ELSE IF b \in 240..244
             THEN Utf8Cont(bytes, i + 1, 3, b % 8,
                           IF b = 240 THEN 144 ELSE 128, IF b = 244 THEN 143 ELSE 191)
             ELSE <<65533>> \o Utf8Dec(bytes, i + 1)

utf8Decode(bytes) ==
    LET s == Utf8Dec(bytes, 1)
    IN  IF s # <<>> /\ s[1] = 65279 THEN Tail(s) ELSE s

\* ------------------------------------------------------------- tag classes

\* AbstractNBT.headerLength
headerLength == 2

\* The messages of the errors the code throws; RangeError and TypeError are
\* the runtime's own (a view outside its buffer, a negative length; a
\* property read on undefined).
InvalidPayload == "Invalid payload"
ListMismatch == "Tag type does not match expected type or name not empty."
CompoundNoEnd == "TAG_Compound must end with a TAG_End"
ReachedEnd == "Reached end of buffer"
UnexpectedTag == "Unexppected tag type"
RangeError == "RangeError"
TypeError == "TypeError"

\* AbstractNBT's constructor: the fields every tag object holds.  The cached
\* _payloadLength and _tagType are set by the classes that have them.
AbstractNBT(id, nameLength, name, payload) ==
    [id |-> id, nameLength |-> nameLength, name |-> name, payload |-> payload,
     payloadLength |-> 0, tagType |-> -1]

NoTag == AbstractNBT(-1, 0, <<>>, <<>>)

Built(tag) == [ok |-> TRUE, err |-> "", tag |-> tag]

Thrown(err) == [ok |-> FALSE, err |-> err, tag |-> NoTag]

getHeaderLength(tag) == IF tag.id = 0 THEN 1 ELSE 1 + 2 + headerLength

getPayloadLength(tag) ==
    CASE tag.id = 0 -> 0
      [] tag.id = 1 -> 1
      [] tag.id = 2 -> 2
      [] tag.id = 3 -> 4
      [] tag.id = 4 -> 8
      [] tag.id = 5 -> 4
      [] tag.id = 6 -> 8
      [] tag.id = 7 -> 4 + tag.payloadLength
      [] tag.id = 8 -> 2 + tag.payloadLength
      [] tag.id = 9 -> 2 + tag.payloadLength
      [] tag.id = 10 -> tag.payloadLength
      [] tag.id = 11 -> 4 + tag.payloadLength * 4
      [] tag.id = 12 -> 4 + tag.payloadLength * 8

getTotalLength(tag) == getHeaderLength(tag) + getPayloadLength(tag)

RECURSIVE SumTotalLength(_)
\* payload.reduce((a, b) => a + b.getTotalLength(), 0)
SumTotalLength(tags) ==
    IF tags = <<>> THEN 0 ELSE getTotalLength(Head(tags)) + SumTotalLength(Tail(tags))

TAG_End(nameLength, name, payload) == Built(AbstractNBT(0, 0, <<>>, <<>>))

TAG_Byte(nameLength, name, payload) ==
    IF NumGT(payload, 127) \/ NumLT(payload, -128) THEN Thrown(InvalidPayload)
    ELSE Built(AbstractNBT(1, nameLength, name, payload))

TAG_Short(nameLength, name, payload) ==
    IF NumGT(payload, 32767) \/ NumLT(payload, -32768) \/ ~isInteger(payload)
    THEN Thrown(InvalidPayload)
    ELSE Built(AbstractNBT(2, nameLength, name, payload))

TAG_Int(nameLength, name, payload) ==
    IF NumGT(payload, 2147483647) \/ NumLT(payload, -2147483647 - 1) \/ ~isInteger(payload)
    THEN Thrown(InvalidPayload)
    ELSE Built(AbstractNBT(3, nameLength, name, payload))

\* BigInt(9223372036854775807) is the bigint of the nearest double, 2^63;
\* the payload is always a bigint here.
TAG_Long(nameLength, name, payload) ==
    IF \/ payload[1] > 32768
       \/ payload[1] = 32768 /\ SubSeq(payload, 2, 4) # <<0, 0, 0>>
       \/ payload[1] < -32768
    THEN Thrown(InvalidPayload)
    ELSE Built(AbstractNBT(4, nameLength, name, payload))

TAG_Float(nameLength, name, payload) ==
    IF isInteger(payload) THEN Thrown(InvalidPayload)
    ELSE Built(AbstractNBT(5, nameLength, name, payload))

TAG_Double(nameLength, name, payload) ==
    IF isInteger(payload) THEN Thrown(InvalidPayload)
    ELSE Built(AbstractNBT(6, nameLength, name, payload))

TAG_Byte_Array(nameLength, name, payload) ==
    Built([AbstractNBT(7, nameLength, name, payload) EXCEPT !.payloadLength = Len(payload)])

\* payload is _rawPayload; the text mutf8Decode makes of it is not kept.
TAG_String(nameLength, name, rawPayload) ==
    Built([AbstractNBT(8, nameLength, name, rawPayload)
              EXCEPT !.payloadLength = Len(rawPayload)])

\* payload is {tagType, payload}
TAG_List(nameLength, name, payload) ==
    IF \E i \in 1..Len(payload.payload) :
          payload.payload[i].id # payload.tagType \/ payload.payload[i].nameLength # 0
    THEN Thrown(ListMismatch)
    ELSE Built([AbstractNBT(9, nameLength, name, payload.payload)
                   EXCEPT !.tagType = payload.tagType,
                          !.payloadLength = 1 + 4 + SumTotalLength(payload.payload)])

\* payload[payload.length - 1] of an empty payload is undefined.
TAG_Compound(nameLength, name, payload) ==
    IF payload = <<>> THEN Thrown(TypeError)
    ELSE IF payload[Len(payload)].id # 0 THEN Thrown(CompoundNoEnd)
    ELSE Built([AbstractNBT(10, nameLength, name, payload)
                   EXCEPT !.payloadLength = SumTotalLength(payload)])

TAG_Int_Array(nameLength, name, payload) ==
    Built([AbstractNBT(11, nameLength, name, payload) EXCEPT !.payloadLength = Len(payload)])

TAG_Long_Array(nameLength, name, payload) ==
    Built([AbstractNBT(12, nameLength, name, payload) EXCEPT !.payloadLength = Len(payload)])

\* A table that has every id: what parseNBT does without its test.
InTableAny(tagId) == TRUE

\* The keys of TAG_ID_TO_CLASS.
InTable(tagId) == tagId \in 0..12

\* new TAG_ID_TO_CLASS[tagId](nameLength, name, payload); a missing class is
\* undefined, and constructing it a TypeError.
NewTag(tagId, nameLength, name, payload) ==
    CASE tagId = 0 -> TAG_End(nameLength, name, payload)
      [] tagId = 1 -> TAG_Byte(nameLength, name, payload)
      [] tagId = 2 -> TAG_Short(nameLength, name, payload)
      [] tagId = 3 -> TAG_Int(nameLength, name, payload)
      [] tagId = 4 -> TAG_Long(nameLength, name, payload)
      [] tagId = 5 -> TAG_Float(nameLength, name, payload)
      [] tagId = 6 -> TAG_Double(nameLength, name, payload)
      [] tagId = 7 -> TAG_Byte_Array(nameLength, name, payload)
      [] tagId = 8 -> TAG_String(nameLength, name, payload)
      [] tagId = 9 -> TAG_List(nameLength, name, payload)
      [] tagId = 10 -> TAG_Compound(nameLength, name, payload)
      [] tagId = 11 -> TAG_Int_Array(nameLength, name, payload)
      [] tagId = 12 -> TAG_Long_Array(nameLength, name, payload)
      [] OTHER -> Thrown(TypeError)

\* ------------------------------------------------------------------ writing

\* The stream after a write: its buffer and byteOffset, or what was thrown.
Wrote(buffer, off) == [ok |-> TRUE, err |-> "", buffer |-> buffer, byteOffset |-> off]

WriteThrew(err, buffer, off) ==
    [ok |-> FALSE, err |-> err, buffer |-> buffer, byteOffset |-> off]

\* The name bytes writeHeader stores at 3 + idx before a setUint8 outside the
\* view throws.
NameBytesInView(nameArray, viewLength) ==
    SubSeq(nameArray, 1, IF Len(nameArray) < viewLength - 3 THEN Len(nameArray)
                         ELSE viewLength - 3)

\* writeHeader once the view is made: the id, the nameLength as a Uint32 at
\* 1, then the bytes of the name from 3 on.
WriteNamedHeader(tag, buffer, off, nameArray) ==
    IF 3 + Len(nameArray) > getHeaderLength(tag)
    THEN WriteThrew(RangeError,
                    SetBytes(SetBytes(buffer, off, <<tag.id>> \o BE32(tag.nameLength)),
                             off + 3, NameBytesInView(nameArray, getHeaderLength(tag))),
                    off)
    ELSE Wrote(SetBytes(SetBytes(buffer, off, <<tag.id>> \o BE32(tag.nameLength)),
                        off + 3, nameArray),
               off + getHeaderLength(tag))

\* TAG_End writes its id through a view made at byteOffset++.
writeHeader(tag, buffer, off) ==
    IF tag.id = 0
    THEN IF CanView(buffer, off, 1) THEN Wrote(SetBytes(buffer, off, <<0>>), off + 1)
         ELSE WriteThrew(RangeError, buffer, off + 1)
    ELSE IF ~CanView(buffer, off, getHeaderLength(tag)) THEN WriteThrew(RangeError, buffer, off)
    ELSE WriteNamedHeader(tag, buffer, off, utf8Encode(tag.name))

\* The payload bytes of the classes that write them through one view.
PayloadBytes(tag) ==
    CASE tag.id = 1 -> <<Trunc(tag.payload) % 256>>
      [] tag.id = 2 -> BE16(Trunc(tag.payload) % 65536)
      [] tag.id = 3 -> BE32(Trunc(tag.payload))
      [] tag.id = 4 -> BE64(tag.payload)
      [] tag.id = 5 -> setFloat32(tag.payload)
      [] tag.id = 6 -> setFloat64(tag.payload)
      [] tag.id = 7 -> BE32(tag.payloadLength)
                         \o [i \in 1..tag.payloadLength |-> tag.payload[i] % 256]
      [] tag.id = 8 -> BE16(tag.payloadLength % 65536) \o tag.payload
      [] tag.id = 11 -> BE32(tag.payloadLength)
                          \o Flatten([i \in 1..tag.payloadLength |-> BE32(tag.payload[i])])
      [] tag.id = 12 -> BE32(tag.payloadLength)
                          \o Flatten([i \in 1..tag.payloadLength |-> BE64(tag.payload[i])])

RECURSIVE writePayload(_, _, _)
RECURSIVE toBytes(_, _, _)
RECURSIVE WriteEach(_, _, _, _)
RECURSIVE WriteRest(_, _, _)

\* for (const tag of this.payload) tag.writePayload(stream) (List), or
\* tag.toBytes(stream) (Compound, whole = TRUE)
WriteEach(tags, whole, buffer, off) ==
    IF tags = <<>> THEN Wrote(buffer, off)
    ELSE WriteRest(Tail(tags), whole,
                   IF whole THEN toBytes(Head(tags), buffer, off)
                   ELSE writePayload(Head(tags), buffer, off))

\* The loop after one tag is written (w): a throw ends it.
WriteRest(tags, whole, w) ==
    IF w.ok THEN WriteEach(tags, whole, w.buffer, w.byteOffset) ELSE w

writePayload(tag, buffer, off) ==
    CASE tag.id = 0 -> Wrote(buffer, off)
      [] tag.id = 9 ->
            IF ~CanView(buffer, off, 5) THEN WriteThrew(RangeError, buffer, off)
            ELSE WriteEach(tag.payload, FALSE,
                           SetBytes(buffer, off,
                                    <<tag.tagType % 256>> \o BE32(Len(tag.payload))),
                           off + 5)
      [] tag.id = 10 -> WriteEach(tag.payload, TRUE, buffer, off)
      [] OTHER ->
            IF ~CanView(buffer, off, getPayloadLength(tag))
            THEN WriteThrew(RangeError, buffer, off)
            ELSE Wrote(SetBytes(buffer, off, PayloadBytes(tag)),
                       off + getPayloadLength(tag))

\* toBytes after writeHeader (h)
WriteAfterHeader(tag, h) == IF h.ok THEN writePayload(tag, h.buffer, h.byteOffset) ELSE h

toBytes(tag, buffer, off) == WriteAfterHeader(tag, writeHeader(tag, buffer, off))

\* ------------------------------------------------------------------ reading

\* The elements of one List the model reads: a longer List is not decoded,
\* and the parse that meets one is not taken.
MaxElements == 4

BeyondBound == "beyond MaxElements"

\* What a readPayload returns and where it leaves the stream, or what it
\* threw and where the stream was then.
Read(payload, off) == [ok |-> TRUE, err |-> "", payload |-> payload, byteOffset |-> off]

ReadThrew(err, off) == [ok |-> FALSE, err |-> err, payload |-> <<>>, byteOffset |-> off]

Parsed(tag, off) == [ok |-> TRUE, err |-> "", tag |-> tag, byteOffset |-> off]

ParseThrew(err, off) == [ok |-> FALSE, err |-> err, tag |-> NoTag, byteOffset |-> off]

\* A readPayload that reads one fixed-width value through a view of len bytes.
ReadFixed(buffer, off, len, value) ==
    IF CanView(buffer, off, len) THEN Read(value, off + len) ELSE ReadThrew(RangeError, off)

\* new DataView(stream.buffer, stream.byteOffset++, 1): the offset has moved
\* when the view throws.
TAG_Byte_readPayload(buffer, off) ==
    IF CanView(buffer, off, 1) THEN Read(Num(Signed8(buffer[off + 1])), off + 1)
    ELSE ReadThrew(RangeError, off + 1)

\* A TAG_Short.readPayload whose view is not bounded by the buffer: the bytes
\* that are not there read as zero.
TAG_Short_readPayload_unbounded(buffer, off) ==
    Read(Num(getInt16(buffer \o <<0, 0>>, off)), off + 2)

TAG_Short_readPayload(buffer, off) ==
    ReadFixed(buffer, off, 2, Num(getInt16(buffer, off)))

TAG_Int_readPayload(buffer, off) ==
    ReadFixed(buffer, off, 4, Num(getInt32(buffer, off)))

TAG_Long_readPayload(buffer, off) ==
    ReadFixed(buffer, off, 8, getBigInt64(buffer, off))

TAG_Float_readPayload(buffer, off) ==
    ReadFixed(buffer, off, 4, getFloat32(buffer, off))

TAG_Double_readPayload(buffer, off) ==
    ReadFixed(buffer, off, 8, getFloat64(buffer, off))

\* A 4-byte signed count, then a view of count elements of width bytes each
\* (count * width <= the bytes left, stated without the product): the byte
\* offsets of the elements, or the RangeError of a view beyond the buffer.
ReadArray(buffer, off, width) ==
    IF ~CanView(buffer, off, 4) THEN ReadThrew(RangeError, off)
    ELSE IF \/ getInt32(buffer, off) < 0
            \/ getInt32(buffer, off) > (Len(buffer) - (off + 4)) \div width
    THEN ReadThrew(RangeError, off + 4)
    ELSE Read([i \in 1..getInt32(buffer, off) |-> off + 4 + ((i - 1) * width)],
              off + 4 + (getInt32(buffer, off) * width))

\* The elements of the view (v), as an Int8Array, an Int32Array, a
\* BigInt64Array.
Int8Elements(buffer, v) ==
    IF v.ok THEN Read([i \in DOMAIN v.payload |-> Signed8(buffer[v.payload[i] + 1])],
                      v.byteOffset)
    ELSE v

Int32Elements(buffer, v) ==
    IF v.ok THEN Read([i \in DOMAIN v.payload |-> getInt32(buffer, v.payload[i])],
                      v.byteOffset)
    ELSE v

BigInt64Elements(buffer, v) ==
    IF v.ok THEN Read([i \in DOMAIN v.payload |-> getBigInt64(buffer, v.payload[i])],
                      v.byteOffset)
    ELSE v

TAG_Byte_Array_readPayload(buffer, off) == Int8Elements(buffer, ReadArray(buffer, off, 1))

TAG_Int_Array_readPayload(buffer, off) == Int32Elements(buffer, ReadArray(buffer, off, 4))

TAG_Long_Array_readPayload(buffer, off) == BigInt64Elements(buffer, ReadArray(buffer, off, 8))

TAG_String_readPayload(buffer, off) ==
    IF ~CanView(buffer, off, 2) THEN ReadThrew(RangeError, off)
    ELSE LET payloadLength == getUint16(buffer, off)
         IN  IF ~CanView(buffer, off + 2, payloadLength) THEN ReadThrew(RangeError, off + 2)
             ELSE Read(Slice(buffer, off + 2, payloadLength), off + 2 + payloadLength)

getNBTName(buffer, off) ==
    IF ~CanView(buffer, off, 2)
    THEN [ok |-> FALSE, name |-> <<>>, nameLength |-> 0, byteOffset |-> off]
    ELSE LET nameLength == getUint16(buffer, off)
         IN  IF ~CanView(buffer, off + 2, nameLength)
             THEN [ok |-> FALSE, name |-> <<>>, nameLength |-> nameLength,
                   byteOffset |-> off + 2]
             ELSE [ok |-> TRUE, name |-> utf8Decode(Slice(buffer, off + 2, nameLength)),
                   nameLength |-> nameLength, byteOffset |-> off + 2 + nameLength]

\* A do-while that tests the first tag read, not the last.
KeepReadingFirst(payload) == payload[1].id # 0

\* The test of TAG_Compound.readPayload's do-while: the last tag read is an
\* object (always truthy) and is not a TAG_End.
KeepReading(payload) == payload[Len(payload)].id # 0

RECURSIVE parseNBT(_, _)
RECURSIVE readPayload(_, _, _)
RECURSIVE ReadElements(_, _, _, _, _)
RECURSIVE TAG_Compound_readPayload(_, _, _)

\* payload.push(p), p being what parseNBT(stream) returned or threw
PushParsed(payload, p) ==
    IF p.ok THEN Read(Append(payload, p.tag), p.byteOffset)
    ELSE ReadThrew(p.err, p.byteOffset)

\* One iteration of TAG_Compound.readPayload: payload.push(parseNBT(stream)).
ReadNext(payload, buffer, off) == PushParsed(payload, parseNBT(buffer, off))

\* The do-while after an iteration (n): again, or return.
CompoundLoop(n, buffer) ==
    IF n.ok /\ KeepReading(n.payload)
    THEN TAG_Compound_readPayload(n.payload, buffer, n.byteOffset)
    ELSE n

\* The loop, from the payload collected so far.
TAG_Compound_readPayload(payload, buffer, off) ==
    CompoundLoop(ReadNext(payload, buffer, off), buffer)

\* res[i] = new tagClass(0, "", payload) for the payload read (p), the
\* constructed element being t.
ElementMade(tagType, left, res, buffer, off, t) ==
    IF ~t.ok THEN ReadThrew(t.err, off)
    ELSE ReadElements(tagType, left - 1, Append(res, t.tag), buffer, off)

ElementRead(tagType, left, res, buffer, p) ==
    IF ~p.ok THEN p
    ELSE ElementMade(tagType, left, res, buffer, p.byteOffset,
                     NewTag(tagType, 0, <<>>, p.payload))

\* The for loop of TAG_List.readPayload, left elements to go; tagClass is
\* undefined for a tagType outside the table.
ReadElements(tagType, left, res, buffer, off) ==
    IF left = 0 THEN Read([tagType |-> tagType, payload |-> res], off)
    ELSE IF ~InTable(tagType) THEN ReadThrew(TypeError, off)
    ELSE ElementRead(tagType, left, res, buffer, readPayload(tagType, buffer, off))

\* new Array(payloadLength), then the loop
ReadCounted(tagType, payloadLength, buffer, off) ==
    IF payloadLength < 0 THEN ReadThrew(RangeError, off)
    ELSE IF payloadLength > MaxElements THEN ReadThrew(BeyondBound, off)
    ELSE ReadElements(tagType, payloadLength, <<>>, buffer, off)

\* The tagType is read through a view made at byteOffset++.
TAG_List_readPayload(buffer, off) ==
    IF ~CanView(buffer, off, 1) THEN ReadThrew(RangeError, off + 1)
    ELSE IF ~CanView(buffer, off + 1, 4) THEN ReadThrew(RangeError, off + 1)
    ELSE ReadCounted(buffer[off + 1], getInt32(buffer, off + 1), buffer, off + 5)

\* TAG_ID_TO_CLASS[tagId].readPayload(stream)
readPayload(tagId, buffer, off) ==
    CASE tagId = 0 -> Read(<<>>, off)
      [] tagId = 1 -> TAG_Byte_readPayload(buffer, off)
      [] tagId = 2 -> TAG_Short_readPayload(buffer, off)
      [] tagId = 3 -> TAG_Int_readPayload(buffer, off)
      [] tagId = 4 -> TAG_Long_readPayload(buffer, off)
      [] tagId = 5 -> TAG_Float_readPayload(buffer, off)
      [] tagId = 6 -> TAG_Double_readPayload(buffer, off)
      [] tagId = 7 -> TAG_Byte_Array_readPayload(buffer, off)
      [] tagId = 8 -> TAG_String_readPayload(buffer, off)
      [] tagId = 9 -> TAG_List_readPayload(buffer, off)
      [] tagId = 10 -> TAG_Compound_readPayload(<<>>, buffer, off)
      [] tagId = 11 -> TAG_Int_Array_readPayload(buffer, off)
      [] tagId = 12 -> TAG_Long_Array_readPayload(buffer, off)
      [] OTHER -> ReadThrew(TypeError, off)

\* new tagClass(nameLength, name, payload) returned or threw (t)
ParseMade(t, off) == IF t.ok THEN Parsed(t.tag, off) ELSE ParseThrew(t.err, off)

\* tagClass.readPayload(stream) returned or threw (p)
ParsePayload(tagId, nm, p) ==
    IF ~p.ok THEN ParseThrew(p.err, p.byteOffset)
    ELSE ParseMade(NewTag(tagId, nm.nameLength, nm.name, p.payload), p.byteOffset)

\* The tag parseNBT makes once the id and the name (nm) are read.
ParseBody(tagId, nm, buffer) ==
    IF ~InTable(tagId) THEN ParseThrew(UnexpectedTag, nm.byteOffset)
    ELSE ParsePayload(tagId, nm, readPayload(tagId, buffer, nm.byteOffset))

\* The id and the name parseNBT reads first (a TAG_End has no name).
ParseHead(buffer, off) ==
    IF buffer[off + 1] # 0 THEN getNBTName(buffer, off + 1)
    ELSE [ok |-> TRUE, name |-> <<>>, nameLength |-> 0, byteOffset |-> off + 1]

ParseNamed(tagId, nm, buffer) ==
    IF ~nm.ok THEN ParseThrew(RangeError, nm.byteOffset) ELSE ParseBody(tagId, nm, buffer)

parseNBT(buffer, off) ==
    IF Len(buffer) <= off THEN ParseThrew(ReachedEnd, off)
    ELSE ParseNamed(buffer[off + 1], ParseHead(buffer, off), buffer)

\* ------------------------------------------------------------------ bounds

\* tags a container is built from
MaxPool == 2
\* nesting of containers, built or on the wire
MaxDepth == 2
\* elements of a List, members of a Compound, on the wire
MaxCount == 2
\* the byte offset an encode starts at
MaxStart == 1
\* bytes of an encoding on the wire that holds other encodings
MaxWire == 30

\* ------------------------------------------------------------------ inputs

Names == { <<>>, <<97>>, <<233>>, <<97, 98, 99>> }

ContainerNames == { <<>>, <<97>> }

\* The (nameLength, name) a constructor is called with: the constructor keeps
\* both as given, so the nameLength is the name's encoded length or not.
NameArgs ==
    { [nameLength |-> Len(utf8Encode(name)), name |-> name] : name \in Names }
    \cup { [nameLength |-> 0, name |-> <<97>>], [nameLength |-> 1, name |-> <<>>] }

\* Constructor arguments: the payloads at, beside and beyond each range, a
\* half, NaN.
LeafArgs ==
    { [id |-> 0, payload |-> <<>>] }
    \cup { [id |-> 1, payload |-> v] :
            v \in { Num(5), Num(127), Num(128), Num(-128), Num(-129), NumHalf(1),
                    NumHalf(-2), NaN } }
    \cup { [id |-> 2, payload |-> v] :
            v \in { Num(7), Num(32767), Num(32768), Num(-32768), Num(-32769),
                    NumHalf(1), NaN } }
    \cup { [id |-> 3, payload |-> v] :
            v \in { Num(7), Num(2147483647), [cls |-> "num", q |-> 1073741824, r |-> 0],
                    Num(-2147483647 - 1), [cls |-> "num", q |-> -1073741825, r |-> 2],
                    NumHalf(1), NaN } }
    \cup { [id |-> 4, payload |-> v] :
            v \in { <<0, 0, 0, 5>>, <<-1, 65535, 65535, 65535>>,
                    <<32767, 65535, 65535, 65535>>, <<32768, 0, 0, 0>>,
                    <<32768, 0, 0, 1>>, <<-32768, 0, 0, 0>>,
                    <<-32769, 65535, 65535, 65535>> } }
    \cup { [id |-> 5, payload |-> v] : v \in { NumHalf(1), NumOfTwice(-5), Num(1), Num(0) } }
    \cup { [id |-> 6, payload |-> v] : v \in { NumHalf(1), NumOfTwice(-5), Num(1), Num(0) } }
    \cup { [id |-> 7, payload |-> v] : v \in { <<>>, <<1, -1>> } }
    \cup { [id |-> 8, payload |-> v] : v \in { <<>>, <<104, 105>> } }
    \cup { [id |-> 11, payload |-> v] : v \in { <<>>, <<7, -1>> } }
    \cup { [id |-> 12, payload |-> v] : v \in { <<>>, << <<0, 0, 0, 5>> >> } }

\* The arguments of the tags containers are built from.
MemberArgs ==
    { [id |-> 0, payload |-> <<>>], [id |-> 1, payload |-> Num(5)],
      [id |-> 2, payload |-> Num(7)], [id |-> 3, payload |-> Num(7)],
      [id |-> 5, payload |-> NumHalf(1)], [id |-> 8, payload |-> <<104, 105>>] }

MemberNameArgs ==
    { [nameLength |-> 0, name |-> <<>>], [nameLength |-> 1, name |-> <<97>>],
      [nameLength |-> 0, name |-> <<97>>], [nameLength |-> 1, name |-> <<>>] }

\* The element types a List is declared with.
ListTypes == { 0, 1, 3, 9, 10 }

RECURSIVE Depth(_)
RECURSIVE Deepest(_)
\* The nesting of containers in a tag, and the deepest of a sequence of tags.
Deepest(tags) ==
    IF tags = <<>> THEN 0
    ELSE IF Depth(Head(tags)) > Deepest(Tail(tags)) THEN Depth(Head(tags))
    ELSE Deepest(Tail(tags))

Depth(tag) == IF tag.id \in {9, 10} THEN 1 + Deepest(tag.payload) ELSE 0

Zeros(n) == [i \in 1..n |-> 0]

\* ------------------------------------------------------------------ state

VARIABLES
    pc,        \* where the caller is
    pool,      \* the tags built so far that the next container takes as payload
    call,      \* the arguments of the last constructor call
    made,      \* what that call returned or threw
    stream,    \* {buffer, byteOffset}
    start,     \* the byteOffset toBytes started at
    wrote,     \* whether toBytes returned, or what it threw
    wire,      \* the encoding the buffer was loaded from
    intact,    \* the buffer's first byte is still the encoding's
    res,       \* what parseNBT returned or threw
    cstate,    \* TAG_Compound.readPayload's loop, stepped
    cpayload,  \* the payload it has collected
    before     \* the byteOffset before its last iteration

vars == <<pc, pool, call, made, stream, start, wrote, wire, intact, res,
          cstate, cpayload, before>>

NoCall == [id |-> -1, nameLength |-> 0, name |-> <<>>, payload |-> <<>>, tagType |-> -1]

Init ==
    /\ pc = "idle"
    /\ pool = <<>>
    /\ call = NoCall
    /\ made = Thrown("")
    /\ stream = [buffer |-> <<>>, byteOffset |-> 0]
    /\ start = 0
    /\ wrote = [ok |-> FALSE, err |-> ""]
    /\ wire = [bytes |-> <<>>, head |-> 0, depth |-> 0]
    /\ intact = TRUE
    /\ res = ParseThrew("", 0)
    /\ cstate = "IDLE"
    /\ cpayload = <<>>
    /\ before = 0

writeVars == <<stream, start, wrote>>
readVars == <<wire, intact, res, cstate, cpayload, before>>

\* ------------------------------------------------------------- the write path

\* new TAG_X(nameLength, name, payload) of a class without children.
Construct(a, nameLength, name) ==
    /\ pc = "idle"
    /\ call' = [id |-> a.id, nameLength |-> nameLength, name |-> name,
                payload |-> a.payload, tagType |-> -1]
    /\ made' = NewTag(a.id, nameLength, name, a.payload)
    /\ pc' = "made"
    /\ UNCHANGED <<pool, writeVars, readVars>>

\* The same, the tag being kept for the next container.
AddMember(a, nameLength, name) ==
    /\ pc \in {"idle", "build"}
    /\ Len(pool) < MaxPool
    /\ call' = [id |-> a.id, nameLength |-> nameLength, name |-> name,
                payload |-> a.payload, tagType |-> -1]
    /\ made' = NewTag(a.id, nameLength, name, a.payload)
    /\ pool' = IF made'.ok THEN Append(pool, made'.tag) ELSE pool
    /\ pc' = "build"
    /\ UNCHANGED <<writeVars, readVars>>

\* new TAG_List(nameLength, name, {tagType, payload}) over the tags built; the
\* containers are named by their names' encoded lengths.
NewList(tagType, name) ==
    /\ pc \in {"idle", "build"}
    /\ \A i \in 1..Len(pool) : Depth(pool[i]) < MaxDepth
    /\ call' = [id |-> 9, nameLength |-> Len(utf8Encode(name)), name |-> name,
                payload |-> pool, tagType |-> tagType]
    /\ made' = TAG_List(Len(utf8Encode(name)), name, [tagType |-> tagType, payload |-> pool])
    /\ pool' = IF made'.ok THEN <<made'.tag>> ELSE <<>>
    /\ pc' = "build"
    /\ UNCHANGED <<writeVars, readVars>>

\* new TAG_Compound(nameLength, name, payload) over the tags built.
NewCompound(name) ==
    /\ pc \in {"idle", "build"}
    /\ \A i \in 1..Len(pool) : Depth(pool[i]) < MaxDepth
    /\ call' = [id |-> 10, nameLength |-> Len(utf8Encode(name)), name |-> name,
                payload |-> pool, tagType |-> -1]
    /\ made' = TAG_Compound(Len(utf8Encode(name)), name, pool)
    /\ pool' = IF made'.ok THEN <<made'.tag>> ELSE <<>>
    /\ pc' = "build"
    /\ UNCHANGED <<writeVars, readVars>>

\* The stream as toBytes (w) leaves it.
Written(w) ==
    /\ stream' = [buffer |-> w.buffer, byteOffset |-> w.byteOffset]
    /\ wrote' = [ok |-> w.ok, err |-> w.err]

\* tag.toBytes(stream) into a zeroed buffer with getTotalLength() bytes of
\* room after the byteOffset s.
ToBytes(s) ==
    /\ pc \in {"made", "build"}
    /\ made.ok
    /\ Written(toBytes(made.tag, Zeros(s + getTotalLength(made.tag)), s))
    /\ start' = s
    /\ pc' = "wrote"
    /\ UNCHANGED <<pool, call, made, readVars>>

\* parseNBT returned or threw (p), within the model's bound.
Returned(p) ==
    /\ p.err # BeyondBound
    /\ res' = p
    /\ stream' = [stream EXCEPT !.byteOffset = p.byteOffset]

\* parseNBT(stream) over what toBytes wrote, from where it started.
ParseBack ==
    /\ pc = "wrote"
    /\ wrote.ok
    /\ Returned(parseNBT(stream.buffer, start))
    /\ pc' = "reparsed"
    /\ UNCHANGED <<pool, call, made, start, wrote, wire, intact, cstate, cpayload, before>>

\* -------------------------------------------------------------- the read path

\* Payloads on the wire, one or more of each class: Byte, Short, Int, Long,
\* Float 1.5 and 1.0, Double 1.5 and 0.0, the arrays and the String empty and
\* not.
WireLeaves ==
    { [id |-> 0, payload |-> <<>>],
      [id |-> 1, payload |-> <<5>>], [id |-> 1, payload |-> <<255>>],
      [id |-> 2, payload |-> <<0, 7>>],
      [id |-> 3, payload |-> <<255, 255, 255, 254>>],
      [id |-> 4, payload |-> <<0, 0, 0, 0, 0, 0, 0, 5>>],
      [id |-> 5, payload |-> <<63, 192, 0, 0>>], [id |-> 5, payload |-> <<63, 128, 0, 0>>],
      [id |-> 6, payload |-> <<63, 248, 0, 0, 0, 0, 0, 0>>],
      [id |-> 6, payload |-> <<0, 0, 0, 0, 0, 0, 0, 0>>],
      [id |-> 7, payload |-> <<0, 0, 0, 0>>], [id |-> 7, payload |-> <<0, 0, 0, 2, 1, 255>>],
      [id |-> 8, payload |-> <<0, 0>>], [id |-> 8, payload |-> <<0, 2, 104, 105>>],
      [id |-> 11, payload |-> <<0, 0, 0, 1, 0, 0, 0, 7>>],
      [id |-> 12, payload |-> <<0, 0, 0, 1, 0, 0, 0, 0, 0, 0, 0, 5>>] }

\* Names on the wire, as bytes.
WireNames == { <<>>, <<195, 169>> }

\* The first bytes a loaded buffer is given in place of its own, none of them
\* a key of TAG_ID_TO_CLASS.
PokeBytes == { 13, 255 }

\* The bytes that follow an encoding in its buffer.
JunkBytes == { 0, 7 }

RECURSIVE Repeat(_, _)
Repeat(bytes, n) == IF n <= 0 THEN <<>> ELSE bytes \o Repeat(bytes, n - 1)

\* NamedTag := TypeId(1) [ NameLen(2) Name(NameLen) ], then the payload
WireTag(id, name, payload) ==
    IF id = 0 THEN <<0>> ELSE <<id>> \o BE16(Len(name)) \o name \o payload

WireHead(id, name) == IF id = 0 THEN 1 ELSE 3 + Len(name)

\* The buffer is given the encoding of a tag without children.
WireLeaf(l, name) ==
    /\ pc = "idle"
    /\ wire' = [bytes |-> WireTag(l.id, name, l.payload), head |-> WireHead(l.id, name),
                depth |-> 0]
    /\ pc' = "wire"
    /\ UNCHANGED <<pool, call, made, writeVars, intact, res, cstate, cpayload, before>>

\* List := ElemTypeId(1) Count(4, signed) Payload[Count], of n copies of the
\* payload of the tag encoded so far.
WireList(name, n) ==
    /\ pc = "wire"
    /\ wire.depth < MaxDepth
    /\ WireHead(9, name) + 5 + n * (Len(wire.bytes) - wire.head) <= MaxWire
    /\ wire' = [bytes |-> WireTag(9, name,
                                  <<wire.bytes[1]>> \o BE32(n)
                                    \o Repeat(SubSeq(wire.bytes, wire.head + 1,
                                                     Len(wire.bytes)), n)),
                head |-> WireHead(9, name), depth |-> wire.depth + 1]
    /\ pc' = "wire"
    /\ UNCHANGED <<pool, call, made, writeVars, intact, res, cstate, cpayload, before>>

\* Compound := NamedTag* End, of n copies of the tag encoded so far (not a
\* bare End, which would end the Compound).
WireCompound(name, n) ==
    /\ pc = "wire"
    /\ wire.depth < MaxDepth
    /\ n > 0 => wire.bytes[1] # 0
    /\ WireHead(10, name) + n * Len(wire.bytes) + 1 <= MaxWire
    /\ wire' = [bytes |-> WireTag(10, name, Repeat(wire.bytes, n) \o <<0>>),
                head |-> WireHead(10, name), depth |-> wire.depth + 1]
    /\ pc' = "wire"
    /\ UNCHANGED <<pool, call, made, writeVars, intact, res, cstate, cpayload, before>>

\* The stream is given the first k bytes of the encoding.
Load(k) ==
    /\ pc = "wire"
    /\ stream' = [buffer |-> SubSeq(wire.bytes, 1, k), byteOffset |-> 0]
    /\ pc' = "loaded"
    /\ UNCHANGED <<pool, call, made, start, wrote, readVars>>

\* A byte follows the whole encoding in the buffer.
Junk(b) ==
    /\ pc = "loaded"
    /\ intact
    /\ stream.buffer = wire.bytes
    /\ stream' = [stream EXCEPT !.buffer = Append(wire.bytes, b)]
    /\ UNCHANGED <<pc, pool, call, made, start, wrote, readVars>>

\* The buffer's first byte becomes b.
Poke(b) ==
    /\ pc = "loaded"
    /\ intact
    /\ Len(stream.buffer) >= 1
    /\ stream' = [stream EXCEPT !.buffer = [stream.buffer EXCEPT ![1] = b]]
    /\ intact' = FALSE
    /\ UNCHANGED <<pc, pool, call, made, start, wrote, wire, res, cstate, cpayload, before>>

\* The byte that declares the element type of a List, the whole of which is
\* in the buffer, becomes b.
PokeElementType(b) ==
    /\ pc = "loaded"
    /\ intact
    /\ stream.buffer = wire.bytes
    /\ Len(wire.bytes) >= 1
    /\ wire.bytes[1] = 9
    /\ stream' = [stream EXCEPT !.buffer = [stream.buffer EXCEPT ![wire.head + 1] = b]]
    /\ intact' = FALSE
    /\ UNCHANGED <<pc, pool, call, made, start, wrote, wire, res, cstate, cpayload, before>>

\* parseNBT(stream) from byteOffset 0.
Parse ==
    /\ pc = "loaded"
    /\ Returned(parseNBT(stream.buffer, 0))
    /\ pc' = "parsed"
    /\ UNCHANGED <<pool, call, made, start, wrote, wire, intact, cstate, cpayload, before>>

\* The name is read (nm) and the stream is past it.
Named(nm) ==
    /\ nm.ok
    /\ stream' = [stream EXCEPT !.byteOffset = nm.byteOffset]
    /\ before' = nm.byteOffset

\* parseNBT(stream) of a buffer that starts a Compound, up to the call of
\* TAG_Compound.readPayload: the loop is awaiting its first tag.
BeginCompound ==
    /\ pc = "loaded"
    /\ Len(stream.buffer) > 0
    /\ stream.buffer[1] = 10
    /\ Named(ParseHead(stream.buffer, 0))
    /\ cstate' = "AWAITING_TAG"
    /\ cpayload' = <<>>
    /\ pc' = "stepping"
    /\ UNCHANGED <<pool, call, made, start, wrote, wire, intact, res>>

\* The loop after an iteration (n).
Stepped(n) ==
    /\ n.err # BeyondBound
    /\ stream' = [stream EXCEPT !.byteOffset = n.byteOffset]
    /\ before' = stream.byteOffset
    /\ IF n.ok
       THEN /\ cpayload' = n.payload
            /\ cstate' = IF KeepReading(n.payload) THEN "AWAITING_TAG" ELSE "DONE"
            /\ UNCHANGED <<pc, res>>
       ELSE /\ cstate' = "FAILED"
            /\ res' = ParseThrew(n.err, n.byteOffset)
            /\ pc' = "parsed"
            /\ UNCHANGED cpayload

\* One iteration of the loop: a tag is parsed and pushed, and the loop goes on
\* unless it is a TAG_End; an error leaves readPayload and parseNBT.
StepCompound ==
    /\ pc = "stepping"
    /\ cstate = "AWAITING_TAG"
    /\ Stepped(ReadNext(cpayload, stream.buffer, stream.byteOffset))
    /\ UNCHANGED <<pool, call, made, start, wrote, wire, intact>>

\* readPayload returns the payload and parseNBT constructs the TAG_Compound.
FinishCompound ==
    /\ pc = "stepping"
    /\ cstate = "DONE"
    /\ res' = ParsePayload(10, ParseHead(stream.buffer, 0), Read(cpayload, stream.byteOffset))
    /\ pc' = "parsed"
    /\ UNCHANGED <<pool, call, made, stream, start, wrote, wire, intact, cstate,
                   cpayload, before>>

\* The constructors, toBytes, and parseNBT over what toBytes wrote.
Encode ==
    \/ \E a \in LeafArgs, n \in NameArgs : Construct(a, n.nameLength, n.name)
    \/ \E a \in MemberArgs, n \in MemberNameArgs : AddMember(a, n.nameLength, n.name)
    \/ \E tagType \in ListTypes, name \in ContainerNames : NewList(tagType, name)
    \/ \E name \in ContainerNames : NewCompound(name)
    \/ \E s \in 0..MaxStart : ToBytes(s)
    \/ ParseBack

\* parseNBT over the buffers given to it, whole or stepped through a
\* Compound's loop.
Decode ==
    \/ \E l \in WireLeaves, name \in WireNames : WireLeaf(l, name)
    \/ \E name \in WireNames, n \in 0..MaxCount : WireList(name, n)
    \/ \E name \in WireNames, n \in 0..MaxCount : WireCompound(name, n)
    \/ \E k \in 0..Len(wire.bytes) : Load(k)
    \/ \E b \in JunkBytes : Junk(b)
    \/ \E b \in PokeBytes : Poke(b)
    \/ \E b \in PokeBytes : PokeElementType(b)
    \/ Parse
    \/ BeginCompound
    \/ StepCompound
    \/ FinishCompound

Next == Encode \/ Decode

Spec == Init /\ [][Next]_vars

SpecEncode == Init /\ [][Encode]_vars

SpecDecode == Init /\ [][Decode]_vars

\* ------------------------------------------------------------------ claims

RECURSIVE TagEq(_, _)
\* Structural equality of two tags: type ids, names, payload values, nesting.
TagEq(a, b) ==
    /\ a.id = b.id
    /\ a.name = b.name
    /\ IF a.id \in {9, 10}
       THEN /\ a.tagType = b.tagType
            /\ Len(a.payload) = Len(b.payload)
            /\ \A i \in 1..Len(a.payload) : TagEq(a.payload[i], b.payload[i])
       ELSE a.payload = b.payload

\* The last constructor call named its tag by its name's encoded length.
NamedByLength(c) == c.nameLength = Len(utf8Encode(c.name))

RECURSIVE AllNamedByLength(_)
AllNamedByLength(tag) ==
    /\ NamedByLength(tag)
    /\ tag.id \in {9, 10} => \A i \in 1..Len(tag.payload) : AllNamedByLength(tag.payload[i])

\* The classes whose payload is written through one view.
OneView == {1, 2, 3, 4, 5, 6, 7, 8, 11, 12}

\* C1: a tag written by toBytes from position 0 and parsed back by parseNBT
\* from position 0 comes back structurally equal, the parse having advanced
\* the cursor by getTotalLength().
RoundTrip ==
    (pc = "reparsed" /\ start = 0 /\ AllNamedByLength(made.tag))
        => /\ res.ok
           /\ TagEq(res.tag, made.tag)
           /\ res.byteOffset = getTotalLength(made.tag)

\* C2: a toBytes that returns has advanced the stream's byteOffset by
\* getTotalLength().
LengthIsBytesWritten ==
    (pc = "wrote" /\ wrote.ok /\ AllNamedByLength(made.tag))
        => stream.byteOffset - start = getTotalLength(made.tag)

\* C3: toBytes of a tag other than TAG_End, named by n encoded bytes, returns
\* with the id, n as a big-endian Uint16 and the n bytes of the name written
\* where it started, and the payload right after them.
HeaderLayout ==
    (pc = "wrote" /\ made.tag.id # 0 /\ NamedByLength(made.tag))
        => /\ wrote.ok
           /\ Slice(stream.buffer, start, 3 + made.tag.nameLength)
                 = <<made.tag.id>> \o BE16(made.tag.nameLength) \o utf8Encode(made.tag.name)
           /\ made.tag.id \in OneView
                 => Slice(stream.buffer, start + 3 + made.tag.nameLength,
                          getPayloadLength(made.tag)) = PayloadBytes(made.tag)

\* The buffer parsed is the encoding the wire holds, cut short.
StrictPrefix == intact /\ Len(stream.buffer) < Len(wire.bytes)

\* C4: parseNBT over a strict prefix of a well-formed encoding returns no tag:
\* it throws, and what it throws is the end-of-buffer error or the RangeError
\* of a view beyond the buffer, unless the whole encoding already fails in the
\* same way at the same byteOffset, before the bytes that are missing.
TruncationDetected ==
    (pc = "parsed" /\ StrictPrefix)
        => /\ ~res.ok
           /\ \/ res.err \in {ReachedEnd, RangeError}
              \/ /\ ~parseNBT(wire.bytes, 0).ok
                 /\ parseNBT(wire.bytes, 0).err = res.err
                 /\ parseNBT(wire.bytes, 0).byteOffset = res.byteOffset
                 /\ res.byteOffset <= Len(stream.buffer)

\* A Short's three header bytes without its payload have been parsed, and the
\* parse threw the RangeError of the view.
TruncationDetectedWitness ==
    /\ pc = "parsed"
    /\ StrictPrefix
    /\ wire.bytes = <<2, 0, 0, 0, 7>>
    /\ stream.buffer = <<2, 0, 0>>
    /\ ~res.ok
    /\ res.err = RangeError

\* The buffer parsed starts with a byte that is no key of TAG_ID_TO_CLASS.
UnknownId == Len(stream.buffer) >= 1 /\ ~(stream.buffer[1] \in 0..12)

\* C5, as stated: parseNBT over a buffer whose first byte is outside 0..12
\* throws the unknown-tag error with the cursor advanced by exactly 1.
UnknownIdImmediately ==
    (pc = "parsed" /\ UnknownId)
        => /\ ~res.ok
           /\ res.err = UnexpectedTag
           /\ res.byteOffset = 1

\* The two bytes of the name length and the bytes of the name it announces
\* are in the buffer.
NamePresent ==
    /\ Len(stream.buffer) >= 3
    /\ Len(stream.buffer) >= 3 + getUint16(stream.buffer, 1)

\* C5, amended: parseNBT over a buffer whose first byte is outside 0..12
\* returns no tag; it reads the name first, and throws the unknown-tag error
\* with the cursor after the name when the name is all there, and the
\* RangeError of the view that is not (cursor after the id when the name
\* length is not there, after the name length when the name is not).
UnknownIdAfterName ==
    (pc = "parsed" /\ UnknownId)
        => /\ ~res.ok
           /\ IF NamePresent
              THEN /\ res.err = UnexpectedTag
                   /\ res.byteOffset = 3 + getUint16(stream.buffer, 1)
              ELSE /\ res.err = RangeError
                   /\ res.byteOffset = IF Len(stream.buffer) >= 3 THEN 3 ELSE 1

\* A buffer of an unknown id and a name of two bytes has been parsed: the
\* error is the unknown-tag error, thrown with the cursor at 5.
UnknownIdAfterNameWitness ==
    /\ pc = "parsed"
    /\ UnknownId
    /\ NamePresent
    /\ getUint16(stream.buffer, 1) = 2
    /\ res.err = UnexpectedTag
    /\ res.byteOffset = 5

\* The payload is an integral value in the signed range of the class id.
IntegralInRange(id, payload) ==
    /\ payload.cls = "num"
    /\ isInteger(payload)
    /\ CASE id = 1 -> ~NumGT(payload, 127) /\ ~NumLT(payload, -128)
         [] id = 2 -> ~NumGT(payload, 32767) /\ ~NumLT(payload, -32768)
         [] id = 3 -> ~NumGT(payload, 2147483647) /\ ~NumLT(payload, -2147483647 - 1)

\* C6: new TAG_Byte, TAG_Short or TAG_Int returns if and only if the payload
\* is an integral value within the class's signed range, and throws the
\* invalid-payload error otherwise.
IntegerRangeEnforced ==
    call.id \in {1, 2, 3}
        => /\ made.ok <=> IntegralInRange(call.id, call.payload)
           /\ ~made.ok => made.err = InvalidPayload

\* C7: new TAG_List over a payload with an element whose id is not the
\* declared tagType, or whose name is not the empty string, throws the List's
\* error.
ListHomogeneity ==
    (call.id = 9 /\ \E i \in 1..Len(call.payload) :
                        \/ call.payload[i].id # call.tagType
                        \/ call.payload[i].name # <<>>)
        => /\ ~made.ok
           /\ made.err = ListMismatch

\* C8: new TAG_Compound over a payload that does not end with a TAG_End, the
\* empty payload included, throws the Compound's error; over [TAG_End] it
\* returns, and its payload is written as the one byte 0.
CompoundTermination ==
    /\ (call.id = 10 /\ (call.payload = <<>> \/ call.payload[Len(call.payload)].id # 0))
          => /\ ~made.ok
             /\ made.err = CompoundNoEnd
    /\ (call.id = 10 /\ Len(call.payload) = 1 /\ call.payload[1].id = 0)
          => /\ made.ok
             /\ pc = "wrote"
                   => /\ wrote.ok
                      /\ stream.byteOffset = start + getHeaderLength(made.tag) + 1
                      /\ stream.buffer[stream.byteOffset] = 0

\* C9: parseNBT over a whole well-formed encoding, followed by something or
\* not, returns a tag.
WellFormedAccepted ==
    (pc = "parsed" /\ intact /\ Len(stream.buffer) >= Len(wire.bytes)) => res.ok

\* The tags the loop has collected, none of them a TAG_End before position n.
NoEndBefore(payload, n) == \A i \in 1..(n - 1) : payload[i].id # 0

\* One more call of parseNBT after those that gave r.
ParseAfter(buffer, r) == PushParsed(r.payload, parseNBT(buffer, r.byteOffset))

RECURSIVE ParseEach(_, _, _)
\* n calls of parseNBT one after the other from off: the tags, and the
\* byteOffset they end at.
ParseEach(buffer, off, n) ==
    IF n = 0 THEN Read(<<>>, off) ELSE ParseAfter(buffer, ParseEach(buffer, off, n - 1))

\* C10: TAG_Compound.readPayload, stepped: it is awaiting a tag as long as no
\* TAG_End has been collected, and done at the first one; what it has
\* collected is what that many calls of parseNBT return, one full tag each;
\* when done the payload is not empty, its last tag is the only TAG_End, the
\* last iteration read the one byte 0 of that TAG_End and nothing after it,
\* and over a whole encoding the cursor is at its end whatever follows.
CompoundStateMachine ==
    pc = "stepping"
        => /\ cstate \in {"AWAITING_TAG", "DONE"}
           /\ Read(cpayload, stream.byteOffset)
                 = ParseEach(stream.buffer, ParseHead(stream.buffer, 0).byteOffset,
                             Len(cpayload))
           /\ cstate = "AWAITING_TAG" => NoEndBefore(cpayload, Len(cpayload) + 1)
           /\ cstate = "DONE"
                 => /\ cpayload # <<>>
                    /\ cpayload[Len(cpayload)].id = 0
                    /\ NoEndBefore(cpayload, Len(cpayload))
                    /\ stream.byteOffset = before + 1
                    /\ stream.byteOffset <= Len(stream.buffer)
                    /\ stream.buffer[stream.byteOffset] = 0
                    /\ (intact /\ Len(stream.buffer) >= Len(wire.bytes))
                          => stream.byteOffset = Len(wire.bytes)

\* The loop is done after two tags and the TAG_End, and the buffer goes on
\* after the TAG_End.
CompoundStateMachineWitness ==
    /\ pc = "stepping"
    /\ cstate = "DONE"
    /\ Len(cpayload) = 3
    /\ cpayload[1].id # 0
    /\ cpayload[3].id = 0
    /\ stream.byteOffset < Len(stream.buffer)

\* The buffer parsed holds a whole List whose element type byte is no key of
\* TAG_ID_TO_CLASS.
UnknownElementType ==
    /\ Len(wire.bytes) >= 1
    /\ wire.bytes[1] = 9
    /\ Len(stream.buffer) = Len(wire.bytes)
    /\ stream.buffer[1] = 9
    /\ ~(stream.buffer[wire.head + 1] \in 0..12)

\* C11: parseNBT over a List whose element type byte is outside 0..12 throws
\* the unknown-tag error whatever the count, 0 included, and returns no List.
UnknownElementTypeRejected ==
    (pc = "parsed" /\ UnknownElementType)
        => /\ ~res.ok
           /\ res.err = UnexpectedTag

====
